---- MODULE Spec2Model ----
(***************************************************************************)
(* A model of the HTML-to-PDF converter: file discovery (html_finder.py,   *)
(* config.py), the markup sanitizer and the PDF path mapper                *)
(* (pdf_converter.py), the batch orchestrator and its command line entry   *)
(* point (html_to_pdf_converter.py) and the web session (web_app.py).      *)
(*                                                                         *)
(* Text is modelled as a sequence of characters (one-character strings),   *)
(* a path as a sequence of names, a name as a sequence of characters.      *)
(***************************************************************************)
EXTENDS Integers, Sequences, FiniteSets, TLC

VARIABLES
    \* ---- command line / library batch (html_to_pdf_converter.py) ----
    caller,                 \* "main" (the click command), "library" (a direct user of
                            \* HTMLToPDFConverter) or "web" (the routes of web_app.py)
    rootKind,               \* what base_path names: "missing", "file" or "dir"
    output_dir,             \* self.output_dir
    tree,                   \* the regular files and directories below base_path
    pc,                     \* position of the control flow
    html_files,             \* local html_files of convert_all; session html_files (web)
    idx,                    \* position of the for loop in html_files
    total_files,            \* self.total_files
    successful_conversions, \* self.successful_conversions
    failed_conversions,     \* self.failed_conversions
    ret,                    \* value returned by the last convert_all call; the last
                            \* response (web)
    exitCode,               \* process exit status of main (-1: still running)
    error,                  \* exception that escaped ("none" if none)
    outDirs,                \* output directories that exist
    outFiles,               \* output files that exist, path -> "pdf" | "partial"
    results,                \* per run: the outcome of every attempted file, in order
                            \* (local conversions of convert_files)
    cur,                    \* what the conversion in progress has done so far
    markup,                 \* html_content / enhanced_html of the conversion in progress
    runs,                   \* number of convert_all / convert_files calls started
    renderCalls,            \* number of pisa.CreatePDF invocations
    summaries,              \* what _print_summary printed, one record per call
    \* ---- sanitizer as a pure function (pdf_converter.py) ----
    sanIn,                  \* the input, a sequence of tokens
    sanPc,                  \* "idle", "primary", "fallback", "done", "raised", "enhanced"
    sanStep,                \* substitutions of the primary pass done so far
    sanText,                \* local html_content
    sanOut,                 \* the value returned
    sanTier,                \* the tier that produced it
    \* ---- path mapper as a pure function (pdf_converter.py) ----
    mapIn, mapOut, mapPc,
    \* ---- file discovery (html_finder.py) ----
    findTree, findPc, findOut,
    \* ---- web session (web_app.py) ----
    session, webDisk, response, webPc

batchVars == <<caller, rootKind, output_dir, tree, pc, html_files, idx, total_files,
               successful_conversions, failed_conversions, ret, exitCode, error,
               outDirs, outFiles, results, cur, markup, runs, renderCalls, summaries>>
sanVars   == <<sanIn, sanPc, sanStep, sanText, sanOut, sanTier>>
mapVars   == <<mapIn, mapOut, mapPc>>
findVars  == <<findTree, findPc, findOut>>
webVars   == <<session, webDisk, response, webPc>>
vars      == <<batchVars, sanVars, mapVars, findVars, webVars>>

-----------------------------------------------------------------------------
(* Characters and strings                                                  *)

UpperLetters == <<"A","B","C","D","E","F","G","H","I","J","K","L","M",
                  "N","O","P","Q","R","S","T","U","V","W","X","Y","Z">>
LowerLetters == <<"a","b","c","d","e","f","g","h","i","j","k","l","m",
                  "n","o","p","q","r","s","t","u","v","w","x","y","z">>
Digits == {"0","1","2","3","4","5","6","7","8","9"}
Range(f) == {f[i] : i \in DOMAIN f}

\* str.lower() on one character
LowerChar(c) ==
    IF \E i \in DOMAIN UpperLetters : UpperLetters[i] = c
    THEN LowerLetters[CHOOSE i \in DOMAIN UpperLetters : UpperLetters[i] = c]
    ELSE c

\* str.lower()
Lower(s) == [i \in 1..Len(s) |-> LowerChar(s[i])]

\* regular expression classes \s, \w and the quote class ["']
IsSpace(c) == c \in {" ", "\n", "\t"}
IsWord(c)  == c \in Range(UpperLetters) \cup Range(LowerLetters) \cup Digits \cup {"_"}
IsQuote(c) == c \in {"\"", "'"}

Min(S) == CHOOSE x \in S : \A y \in S : x <= y
Max(S) == CHOOSE x \in S : \A y \in S : x >= y

\* the literal lit (lower case) occurs in s at position i, ignoring case
MatchesAt(s, i, lit) ==
    /\ i >= 1
    /\ i + Len(lit) - 1 <= Len(s)
    /\ \A k \in 1..Len(lit) : LowerChar(s[i + k - 1]) = lit[k]

\* first position >= i of character c, 0 if there is none
FindChar(s, i, c) ==
    LET S == {j \in i..Len(s) : s[j] = c}
    IN  IF S = {} THEN 0 ELSE Min(S)

\* first position >= i where lit occurs ignoring case, 0 if there is none
FindLit(s, i, lit) ==
    LET S == {j \in i..Len(s) : MatchesAt(s, j, lit)}
    IN  IF S = {} THEN 0 ELSE Min(S)

\* position after the run of \s characters starting at i
SkipSpace(s, i) ==
    LET S == {j \in i..Len(s) : ~IsSpace(s[j])}
    IN  IF S = {} THEN Len(s) + 1 ELSE Min(S)

\* position after the run of \w characters starting at i
SkipWord(s, i) ==
    LET S == {j \in i..Len(s) : ~IsWord(s[j])}
    IN  IF S = {} THEN Len(s) + 1 ELSE Min(S)

\* t occurs in s as a contiguous substring (Python: t in s)
Contains(s, t) ==
    \E j \in 1..(Len(s) - Len(t) + 1) : SubSeq(s, j, j + Len(t) - 1) = t

\* str.strip()
Strip(s) ==
    LET S == {j \in 1..Len(s) : ~IsSpace(s[j])}
    IN  IF S = {} THEN <<>> ELSE SubSeq(s, Min(S), Max(S))

-----------------------------------------------------------------------------
(* Regular expressions of pdf_converter.py.  MatchEnd(p, s, i) is the      *)
(* position after the match that Python's backtracking matcher finds for   *)
(* pattern p at position i of s, 0 when p does not match there.            *)

\* literals of the patterns
LIT_rel == <<"r","e","l">>
LIT_stylesheet == <<"s","t","y","l","e","s","h","e","e","t">>
LIT_link == <<"<","l","i","n","k">>
LIT_style_open == <<"<","s","t","y","l","e">>
LIT_style_close == <<"<","/","s","t","y","l","e",">">>
LIT_script_open == <<"<","s","c","r","i","p","t">>
LIT_script_close == <<"<","/","s","c","r","i","p","t",">">>
LIT_style == <<"s","t","y","l","e">>
LIT_class == <<"c","l","a","s","s">>
LIT_id == <<"i","d">>
LIT_data == <<"d","a","t","a","-">>
LIT_aria == <<"a","r","i","a","-">>
LIT_role == <<"r","o","l","e">>
LIT_head == <<"<","h","e","a","d",">">>
LIT_html == <<"<","h","t","m","l",">">>

\* \s*=\s*["'][^"']*["'] at position k: the position after the closing quote
ValueEnd(s, k) ==
    LET a == SkipSpace(s, k)
        b == SkipSpace(s, a + 1)
        S == {j \in (b + 1)..Len(s) : IsQuote(s[j])}
    IN  IF a <= Len(s) /\ s[a] = "=" /\ b <= Len(s) /\ IsQuote(s[b]) /\ S # {}
        THEN Min(S) + 1
        ELSE 0

\* <open[^>]*>.*?</close>  (DOTALL, IGNORECASE); open and close are the
\* literals "<style" / "</style>" or "<script" / "</script>"
BlockEnd(s, i, open, close) ==
    LET g == FindChar(s, i + Len(open), ">")
        c == IF g = 0 THEN 0 ELSE FindLit(s, g + 1, close)
    IN  IF MatchesAt(s, i, open) /\ g # 0 /\ c # 0 THEN c + Len(close) ELSE 0

\* \sNAME\s*=\s*["'][^"']*["']  (IGNORECASE), NAME a literal
AttrEnd(s, i, name) ==
    IF i <= Len(s) /\ IsSpace(s[i]) /\ MatchesAt(s, i + 1, name)
    THEN ValueEnd(s, i + 1 + Len(name))
    ELSE 0

\* \sPREFIX.*\s*=\s*["'][^"']*["']  (IGNORECASE): the greedy .* runs to the
\* end of the line and gives back characters until the rest matches
AttrWildEnd(s, i, prefix) ==
    LET k0 == i + 1 + Len(prefix)
        nl == FindChar(s, k0, "\n")
        e  == IF nl = 0 THEN Len(s) + 1 ELSE nl
        K  == {k \in k0..e : ValueEnd(s, k) # 0}
    IN  IF i <= Len(s) /\ IsSpace(s[i]) /\ MatchesAt(s, i + 1, prefix) /\ K # {}
        THEN ValueEnd(s, Max(K))
        ELSE 0

\* rel\s*=\s*["']stylesheet["'] at position k
RelStylesheetAt(s, k) ==
    LET a == SkipSpace(s, k + 3)
        b == SkipSpace(s, a + 1)
    IN  /\ MatchesAt(s, k, LIT_rel)
        /\ a <= Len(s) /\ s[a] = "="
        /\ b <= Len(s) /\ IsQuote(s[b])
        /\ MatchesAt(s, b + 1, LIT_stylesheet)
        /\ b + 11 <= Len(s) /\ IsQuote(s[b + 11])

\* <link[^>]*rel\s*=\s*["']stylesheet["'][^>]*>  (IGNORECASE)
LinkEnd(s, i) ==
    LET g == FindChar(s, i + 5, ">")
    IN  IF /\ MatchesAt(s, i, LIT_link)
           /\ g # 0
           /\ \E k \in (i + 5)..(g - 1) : RelStylesheetAt(s, k)
        THEN g + 1
        ELSE 0

\* >\s+<
GtSpaceLtEnd(s, i) ==
    LET k == SkipSpace(s, i + 1)
    IN  IF i + 1 <= Len(s) /\ s[i] = ">" /\ IsSpace(s[i + 1]) /\ k <= Len(s) /\ s[k] = "<"
        THEN k + 1
        ELSE 0

\* \s+>
SpaceGtEnd(s, i) ==
    LET k == SkipSpace(s, i)
    IN  IF i <= Len(s) /\ IsSpace(s[i]) /\ k <= Len(s) /\ s[k] = ">" THEN k + 1 ELSE 0

\* <(\w+)[^>]*>
OpenTagEnd(s, i) ==
    LET g == FindChar(s, i + 2, ">")
    IN  IF i + 1 <= Len(s) /\ s[i] = "<" /\ IsWord(s[i + 1]) /\ g # 0 THEN g + 1 ELSE 0

\* </?TAG[^>]*>  (IGNORECASE), TAG the escaped tag name
TagEnd(s, i, tag) ==
    LET j == IF i + 1 <= Len(s) /\ s[i + 1] = "/" /\ MatchesAt(s, i + 2, Lower(tag))
             THEN i + 2
             ELSE IF MatchesAt(s, i + 1, Lower(tag)) THEN i + 1 ELSE 0
        g == IF j = 0 THEN 0 ELSE FindChar(s, j + Len(tag), ">")
    IN  IF i <= Len(s) /\ s[i] = "<" /\ g # 0 THEN g + 1 ELSE 0

\* </?(\w+)[^>]*> : the start of the tag name, 0 when there is no match
AnyTagName(s, i) ==
    LET j == IF i + 1 <= Len(s) /\ s[i + 1] = "/" THEN i + 2 ELSE i + 1
    IN  IF i <= Len(s) /\ s[i] = "<" /\ j <= Len(s) /\ IsWord(s[j])
           /\ FindChar(s, j + 1, ">") # 0
        THEN j
        ELSE 0

MatchEnd(p, s, i) ==
    CASE p.kind = "block"     -> BlockEnd(s, i, p.open, p.close)
      [] p.kind = "attr"      -> AttrEnd(s, i, p.name)
      [] p.kind = "attr_wild" -> AttrWildEnd(s, i, p.name)
      [] p.kind = "link"      -> LinkEnd(s, i)
      [] p.kind = "spaces"    -> IF IsSpace(s[i]) THEN SkipSpace(s, i) ELSE 0
      [] p.kind = "gt_sp_lt"  -> GtSpaceLtEnd(s, i)
      [] p.kind = "lt_sp"     -> IF i + 1 <= Len(s) /\ s[i] = "<" /\ IsSpace(s[i + 1])
                                 THEN SkipSpace(s, i + 1) ELSE 0
      [] p.kind = "sp_gt"     -> SpaceGtEnd(s, i)
      [] p.kind = "open_tag"  -> OpenTagEnd(s, i)
      [] p.kind = "tag"       -> TagEnd(s, i, p.name)
      [] p.kind = "any_tag"   -> IF AnyTagName(s, i) # 0
                                 THEN FindChar(s, AnyTagName(s, i) + 1, ">") + 1 ELSE 0

\* what re.sub / re.findall put out for the match s[i..e-1] of p
Replacement(p, s, i, e) ==
    CASE p.kind = "spaces"   -> <<" ">>
      [] p.kind = "gt_sp_lt" -> <<">", "<">>
      [] p.kind = "lt_sp"    -> <<"<">>
      [] p.kind = "sp_gt"    -> <<">">>
      [] p.kind = "open_tag" -> <<"<">> \o SubSeq(s, i + 1, SkipWord(s, i + 1) - 1) \o <<">">>
      [] p.kind = "any_tag"  -> <<SubSeq(s, AnyTagName(s, i), SkipWord(s, AnyTagName(s, i)) - 1)>>
      [] OTHER               -> <<>>

\* what they put out for a character that no match covers
Unmatched(p, s, i) == IF p.kind = "any_tag" THEN <<>> ELSE <<s[i]>>

\* one step of the left-to-right scan for non-overlapping matches: st.next is
\* the position where the scan resumes, st.out the output so far
ScanStep(p, s, st, i) ==
    IF i < st.next THEN st
    ELSE LET e == MatchEnd(p, s, i)
         IN  IF e # 0
             THEN [out |-> st.out \o Replacement(p, s, i, e), next |-> e]
             ELSE [out |-> st.out \o Unmatched(p, s, i), next |-> i + 1]

\* the scan over positions lo..hi, the left half first and the right half
\* from the state the left half ends in
RECURSIVE Scan(_, _, _, _, _)
Scan(p, s, lo, hi, st) ==
    IF lo > hi THEN st
    ELSE IF lo = hi THEN ScanStep(p, s, st, lo)
    ELSE LET mid == (lo + hi) \div 2
         IN  CHOOSE r \in {Scan(p, s, mid + 1, hi, left) :
                              left \in {Scan(p, s, lo, mid, st)}} : TRUE

\* re.sub(p, replacement, s)
ReSub(p, s) ==
    CHOOSE r \in {Scan(p, t, 1, Len(t), [out |-> <<>>, next |-> 1]).out : t \in {s}} : TRUE

\* set(re.findall(r'</?(\w+)[^>]*>', s))
FindAllTags(s) == Range(ReSub([kind |-> "any_tag"], s))

-----------------------------------------------------------------------------
(* PDFConverter._sanitize_css_for_pdf and _enhance_html_for_pdf            *)

\* the substitutions of the primary pass, in the order of the code
PrimaryPatterns == <<
    [kind |-> "block", open |-> LIT_style_open, close |-> LIT_style_close],
    [kind |-> "attr", name |-> LIT_style],
    [kind |-> "link"],
    [kind |-> "attr", name |-> LIT_class],
    [kind |-> "attr", name |-> LIT_id],
    [kind |-> "attr_wild", name |-> LIT_data],
    [kind |-> "attr_wild", name |-> LIT_aria],
    [kind |-> "attr", name |-> LIT_role],
    [kind |-> "block", open |-> LIT_script_open, close |-> LIT_script_close],
    [kind |-> "spaces"],
    [kind |-> "gt_sp_lt"],
    [kind |-> "lt_sp"],
    [kind |-> "sp_gt"] >>

NumPrimarySteps == Len(PrimaryPatterns)

\* html_content after the first k substitutions of the primary pass
RECURSIVE PrimarySteps(_, _)
PrimarySteps(s, k) ==
    IF k = 0 THEN s ELSE ReSub(PrimaryPatterns[k], PrimarySteps(s, k - 1))

\* the primary pass when no step raises
SanitizePrimary(s) == Strip(PrimarySteps(s, NumPrimarySteps))

basic_tags == {<<"p">>, <<"h","1">>, <<"h","2">>, <<"h","3">>, <<"h","4">>, <<"h","5">>, <<"h","6">>, <<"d","i","v">>, <<"s","p","a","n">>, <<"u","l">>, <<"o","l">>, <<"l","i">>, <<"t","a","b","l","e">>, <<"t","r">>, <<"t","d">>, <<"t","h">>, <<"b","r">>, <<"s","t","r","o","n","g">>, <<"e","m">>, <<"b">>, <<"i">>}

\* the tags the fallback pass finds and does not allow
DisallowedTags(s) ==
    {t \in FindAllTags(ReSub([kind |-> "open_tag"], s)) : Lower(t) \notin basic_tags}

\* the removal loop of the fallback pass, over the tags in the order given
RECURSIVE RemoveTags(_, _, _)
RemoveTags(s, order, k) ==
    IF k = 0 THEN s
    ELSE ReSub([kind |-> "tag", name |-> order[k]], RemoveTags(s, order, k - 1))

\* the fallback pass when it does not raise; order lists set(all_tags) minus
\* the allowed tags in the order the for loop visits them
SanitizeFallback(s, order) ==
    RemoveTags(ReSub([kind |-> "open_tag"], s), order, Len(order))

\* the orders in which a for loop can visit the elements of set S
Orders(S) ==
    {o \in [1..Cardinality(S) -> S] : \A a \in S : \E i \in DOMAIN o : o[i] = a}

\* the document returned when the fallback pass raises (its sentence is
\* abbreviated to "Content processing failed")
Placeholder == <<"<","h","t","m","l",">","<","b","o","d","y",">","<","p",">","C","o","n","t","e","n","t"," ","p","r","o","c","e","s","s","i","n","g"," ","f","a","i","l","e","d","<","/","p",">","<","/","b","o","d","y",">","<","/","h","t","m","l",">">>

\* pdf_css, the print stylesheet block (its rules are abbreviated to "@page")
pdf_css == <<"\n","<","s","t","y","l","e"," ","t","y","p","e","=","\"","t","e","x","t","/","c","s","s","\"",">","@","p","a","g","e","<","/","s","t","y","l","e",">","\n">>

H_head == <<"<","h","e","a","d",">">>
H_head_end == <<"<","/","h","e","a","d",">">>
H_shell_open == <<"<","h","t","m","l",">","<","h","e","a","d",">">>
H_shell_mid == <<"<","/","h","e","a","d",">","<","b","o","d","y",">">>
H_shell_close == <<"<","/","b","o","d","y",">","<","/","h","t","m","l",">">>

\* U+0130, the one character whose lower() has two characters: "i" and
\* U+0307
DOTTED_I      == "U+0130"
COMBINING_DOT == "U+0307"

\* str.lower() as a string: longer than s by the number of U+0130 in s
StrLower(s) ==
    IF \A j \in DOMAIN s : s[j] # DOTTED_I THEN Lower(s)
    ELSE LET Before(k) == Cardinality({j \in 1..k : s[j] = DOTTED_I})
             First(k) == k + Before(k - 1)
         IN  [n \in 1..(Len(s) + Before(Len(s))) |->
                LET k == CHOOSE k \in 1..Len(s) : First(k) <= n /\ n <= k + Before(k)
                IN  IF s[k] # DOTTED_I THEN LowerChar(s[k])
                    ELSE IF n = First(k) THEN "i" ELSE COMBINING_DOT]

\* the slices s[:n] and s[n:] (n counted from 0)
SliceTo(s, n)   == SubSeq(s, 1, IF n < Len(s) THEN n ELSE Len(s))
SliceFrom(s, n) == SubSeq(s, (IF n < Len(s) THEN n ELSE Len(s)) + 1, Len(s))

\* the injection of pdf_css into the sanitized markup: the positions are
\* found in sanitized_html.lower() and used in sanitized_html
InjectCss(sanitized_html) ==
    LET low == StrLower(sanitized_html)
        head_pos == FindLit(low, 1, LIT_head) - 1 + Len(LIT_head)
        html_pos == FindLit(low, 1, LIT_html) - 1 + Len(LIT_html)
    IN  IF Contains(low, LIT_head)
        THEN SliceTo(sanitized_html, head_pos) \o pdf_css
               \o SliceFrom(sanitized_html, head_pos)
        ELSE IF Contains(low, LIT_html)
        THEN SliceTo(sanitized_html, html_pos) \o H_head \o pdf_css \o H_head_end
               \o SliceFrom(sanitized_html, html_pos)
        ELSE H_shell_open \o pdf_css \o H_shell_mid \o sanitized_html \o H_shell_close

\* what the handler around the primary pass does with a raised fault:
\* "except Exception" catches an Exception and lets a KeyboardInterrupt pass
PrimaryHandler(fault) == IF fault = "Exception" THEN "fallback" ELSE "raised"

\* FallbackHandler without the handler: the fault leaves the sanitizer
FallbackHandlerMissing(fault) == "raised"

\* what the handler around the fallback pass does: a bare "except:" catches all
FallbackHandler(fault) == "placeholder"

-----------------------------------------------------------------------------
(* The sanitizer as a function of its input (specification SpecSan)        *)

MaxTokens == 3

TokStyle  == [kind |-> "style",  text |-> <<"<","s","t","y","l","e",">","s","<","/","s","t","y","l","e",">">>]
TokScript == [kind |-> "script", text |-> <<"<","s","c","r","i","p","t",">","j","<","/","s","c","r","i","p","t",">">>]
TokWord   == [kind |-> "text",   text |-> <<"H","i">>]
TokQuoted == [kind |-> "text",   text |-> <<"s","e","t"," ","i","d","=","\"","x","\"">>]
TokPara   == [kind |-> "tag",    text |-> <<"<","p"," ","c","l","a","s","s","=","\"","c","\"",">">>]
TokBold   == [kind |-> "tag",    text |-> <<"<","b",">">>]

SanTokens == {TokStyle, TokScript, TokWord, TokQuoted, TokPara, TokBold}

SanInputs == UNION {[1..n -> SanTokens] : n \in 0..MaxTokens}

\* the text of a sequence of tokens
RECURSIVE Flatten(_)
Flatten(toks) ==
    IF toks = <<>> THEN <<>> ELSE Head(toks).text \o Flatten(Tail(toks))

SanIdle ==
    /\ sanIn = <<>> /\ sanPc = "idle" /\ sanStep = 0
    /\ sanText = <<>> /\ sanOut = <<>> /\ sanTier = "none"

\* _sanitize_css_for_pdf is entered with html_content
SanInit ==
    /\ sanIn \in SanInputs
    /\ sanPc = "primary" /\ sanStep = 0
    /\ sanText = Flatten(sanIn) /\ sanOut = <<>> /\ sanTier = "none"

\* one html_content = re.sub(...) of the primary pass
SanSubstitute ==
    /\ sanPc = "primary" /\ sanStep < NumPrimarySteps
    /\ sanText' = ReSub(PrimaryPatterns[sanStep + 1], sanText)
    /\ sanStep' = sanStep + 1
    /\ UNCHANGED <<sanIn, sanPc, sanOut, sanTier>>
    /\ UNCHANGED <<batchVars, mapVars, findVars, webVars>>

\* a substitution of the primary pass raises
SanPrimaryFault ==
    /\ sanPc = "primary" /\ sanStep < NumPrimarySteps
    /\ sanPc' = PrimaryHandler("Exception")
    /\ UNCHANGED <<sanIn, sanStep, sanText, sanOut, sanTier>>
    /\ UNCHANGED <<batchVars, mapVars, findVars, webVars>>

\* return html_content.strip()
SanPrimaryReturn ==
    /\ sanPc = "primary" /\ sanStep = NumPrimarySteps
    /\ sanOut' = Strip(sanText) /\ sanTier' = "primary" /\ sanPc' = "done"
    /\ UNCHANGED <<sanIn, sanStep, sanText>>
    /\ UNCHANGED <<batchVars, mapVars, findVars, webVars>>

\* the fallback pass runs to its return
SanFallback ==
    /\ sanPc = "fallback"
    /\ \E order \in Orders(DisallowedTags(sanText)) :
           sanOut' = SanitizeFallback(sanText, order)
    /\ sanTier' = "fallback" /\ sanPc' = "done"
    /\ UNCHANGED <<sanIn, sanStep, sanText>>
    /\ UNCHANGED <<batchVars, mapVars, findVars, webVars>>

\* the fallback pass raises
SanFallbackFault ==
    /\ sanPc = "fallback"
    /\ IF FallbackHandler("Exception") = "placeholder"
       THEN sanOut' = Placeholder /\ sanTier' = "placeholder" /\ sanPc' = "done"
       ELSE sanPc' = "raised" /\ UNCHANGED <<sanOut, sanTier>>
    /\ UNCHANGED <<sanIn, sanStep, sanText>>
    /\ UNCHANGED <<batchVars, mapVars, findVars, webVars>>

\* _enhance_html_for_pdf continues with the injection of pdf_css
SanInject ==
    /\ sanPc = "done"
    /\ sanOut' = InjectCss(sanOut) /\ sanPc' = "enhanced"
    /\ UNCHANGED <<sanIn, sanStep, sanText, sanTier>>
    /\ UNCHANGED <<batchVars, mapVars, findVars, webVars>>

-----------------------------------------------------------------------------
(* The attribute substitutions on tags with several attributes             *)
(* (specification SpecAttr)                                                *)

MaxAttrParts == 4

\* the substitutions for id, data-.*, aria-.* and role are the fifth to the
\* eighth of the primary pass
FirstAttrStep == 5
LastAttrStep  == 8

PartOpen  == [kind |-> "tag",     text |-> <<"<","p">>]
PartClose == [kind |-> "tag",     text |-> <<">">>]
PartData  == [kind |-> "removed", text |-> <<" ","d","a","t","a","-","x","=","\"","1","\"">>]
PartRole  == [kind |-> "removed", text |-> <<" ","r","o","l","e","=","'","r","'">>]
PartTitle == [kind |-> "kept",    text |-> <<" ","t","i","t","l","e","=","\"","t","\"">>]

AttrParts == {PartOpen, PartClose, PartData, PartRole, PartTitle, TokWord}

AttrInputs == UNION {[1..n -> AttrParts] : n \in 0..MaxAttrParts}

\* the primary pass before the substitution for id: the texts drawn hold no
\* style, link or class, so the first four substitutions left them as they are
AttrInit ==
    /\ sanIn \in AttrInputs
    /\ sanPc = "primary" /\ sanStep = FirstAttrStep - 1
    /\ sanText = Flatten(sanIn) /\ sanOut = <<>> /\ sanTier = "none"

-----------------------------------------------------------------------------
(* The fallback pass on allowed and other tags (specification              *)
(* SpecFallback)                                                           *)

MaxFallbackParts == 3

\* bare is the tag without its attributes
PartU      == [kind |-> "other",   text |-> <<"<","u",">">>, bare |-> <<"<","u",">">>]
PartUEnd   == [kind |-> "other",   text |-> <<"<","/","u",">">>, bare |-> <<"<","/","u",">">>]
PartFont   == [kind |-> "other",   text |-> <<"<","f","o","n","t"," ","s","i","z","e","=","2",">">>, bare |-> <<"<","f","o","n","t",">">>]
PartUl     == [kind |-> "allowed", text |-> <<"<","u","l",">">>, bare |-> <<"<","u","l",">">>]
PartLi     == [kind |-> "allowed", text |-> <<"<","l","i"," ","i","d","=","\"","i","\"",">">>, bare |-> <<"<","l","i",">">>]
PartText   == [kind |-> "text",    text |-> <<"H","i">>, bare |-> <<"H","i">>]

FallbackParts == {PartU, PartUEnd, PartFont, PartUl, PartLi, PartText}

FallbackInputs == UNION {[1..n -> FallbackParts] : n \in 0..MaxFallbackParts}

\* _sanitize_css_for_pdf is entered with html_content
FallbackInit ==
    /\ sanIn \in FallbackInputs
    /\ sanPc = "primary" /\ sanStep = 0
    /\ sanText = Flatten(sanIn) /\ sanOut = <<>> /\ sanTier = "none"

-----------------------------------------------------------------------------
(* The injection on sanitized markup with and without head and html tags   *)
(* (specification SpecInject)                                              *)

MaxParts == 3

PartHead      == [kind |-> "tag",  text |-> <<"<","h","e","a","d",">">>]
PartHeadUpper == [kind |-> "tag",  text |-> <<"<","H","E","A","D",">">>]
PartHtml      == [kind |-> "tag",  text |-> <<"<","h","t","m","l",">">>]
PartDotted    == [kind |-> "text", text |-> <<DOTTED_I>>]

InjectParts == {PartHead, PartHeadUpper, PartHtml, PartDotted, TokWord, TokBold}

InjectInputs == UNION {[1..n -> InjectParts] : n \in 0..MaxParts}

\* _sanitize_css_for_pdf has returned sanitized_html (line 83); the texts
\* drawn are left as they are by the primary pass
InjectInit ==
    /\ sanIn \in InjectInputs
    /\ sanPc = "done" /\ sanStep = NumPrimarySteps
    /\ sanText = Flatten(sanIn) /\ sanOut = Flatten(sanIn) /\ sanTier = "primary"

-----------------------------------------------------------------------------
(* Paths (pathlib), Config and PDFConverter.get_pdf_path                   *)

\* the root directory "/" as the first name of an absolute path
ROOT == <<"/">>
IsAbsolute(path) == path # <<>> /\ path[1] = ROOT

\* PurePath.__truediv__: an absolute right operand replaces the left one
Join(a, b) == IF IsAbsolute(b) THEN b ELSE a \o b

\* PurePath.name and PurePath.parent
Name(path) == IF path = <<>> \/ path = <<ROOT>> THEN <<>> ELSE path[Len(path)]
Parent(path) == IF Len(path) <= 1 THEN (IF path = <<ROOT>> THEN path ELSE <<>>)
                ELSE SubSeq(path, 1, Len(path) - 1)

\* position of the dot that starts the suffix of a name (name.rfind('.') with
\* 0 < i < len(name) - 1), 0 when the name has no suffix
SuffixDot(name) ==
    LET D == {j \in 1..Len(name) : name[j] = "."}
    IN  IF D # {} /\ 1 < Max(D) /\ Max(D) < Len(name) THEN Max(D) ELSE 0

\* PurePath.suffix and PurePath.stem
Suffix(name) == IF SuffixDot(name) = 0 THEN <<>>
                ELSE SubSeq(name, SuffixDot(name), Len(name))
Stem(name) == IF SuffixDot(name) = 0 THEN name
              ELSE SubSeq(name, 1, SuffixDot(name) - 1)

EXT_html == <<".","h","t","m","l">>
EXT_htm  == <<".","h","t","m">>
EXT_pdf  == <<".","p","d","f">>
SUPPORTED_EXTENSIONS == {EXT_html, EXT_htm}
DEFAULT_OUTPUT_DIR == <<"o","u","t","p","u","t">>

\* Config.get_output_dir
get_output_dir(base_path) == Join(base_path, <<DEFAULT_OUTPUT_DIR>>)

\* is_html_file without lower(): the comparison is case sensitive
is_html_file_case_sensitive(file_path) ==
    Suffix(Name(file_path)) \in {<<".","h","t","m","l">>, <<".","h","t","m">>}

\* Config.is_html_file
is_html_file(file_path) == Lower(Suffix(Name(file_path))) \in SUPPORTED_EXTENSIONS

\* get_pdf_path appending ".pdf" to the file name instead of to its stem
get_pdf_path_keep_suffix(html_file_path, output_base_path, relative_path) ==
    Join(Join(output_base_path, Parent(relative_path)),
         <<Name(html_file_path) \o <<".","p","d","f">> >>)

\* get_pdf_path without the directory of relative_path
get_pdf_path_flat(html_file_path, output_base_path, relative_path) ==
    Join(output_base_path, <<Stem(Name(html_file_path)) \o <<".","p","d","f">> >>)

\* PDFConverter.get_pdf_path
get_pdf_path(html_file_path, output_base_path, relative_path) ==
    LET pdf_filename == Stem(Name(html_file_path)) \o EXT_pdf
        pdf_relative_dir == Parent(relative_path)
    IN  Join(Join(output_base_path, pdf_relative_dir), <<pdf_filename>>)

-----------------------------------------------------------------------------
(* HTMLFileFinder.  A tree is a set of entries [path, kind] with path      *)
(* relative to base_path and kind "file" or "dir".                         *)

\* every entry of a tree lies in a directory of the tree
IsTree(t) ==
    \A e \in t : Len(e.path) > 1 =>
        \E d \in t : d.kind = "dir" /\ d.path = Parent(e.path)

\* Path.rglob("*") from directory dir: its entries and, recursively, the
\* entries of its subdirectories
RECURSIVE RGlob(_, _)
RGlob(t, dir) ==
    LET here == {e \in t : Len(e.path) = Len(dir) + 1 /\ Parent(e.path) = dir}
    IN  here \cup UNION {RGlob(t, e.path) : e \in {x \in here : x.kind = "dir"}}

\* HTMLFileFinder.find_html_files: the paths yielded, as a set
find_html_files(base_path, t) ==
    {Join(base_path, e.path) :
        e \in {x \in RGlob(t, <<>>) : x.kind = "file" /\ is_html_file(x.path)}}

\* HTMLFileFinder.get_relative_path: file_path.relative_to(base_path)
IsRelativeTo(file_path, base_path) ==
    /\ Len(base_path) <= Len(file_path)
    /\ SubSeq(file_path, 1, Len(base_path)) = base_path
get_relative_path(file_path, base_path) ==
    SubSeq(file_path, Len(base_path) + 1, Len(file_path))

\* FinderInitError without the is_dir() test
FinderInitErrorNoDirTest(kind) ==
    IF kind = "missing" THEN "FileNotFoundError" ELSE "none"

\* HTMLFileFinder.__init__: the exception it raises for what base_path names
FinderInitError(kind) ==
    IF kind = "missing" THEN "FileNotFoundError"
    ELSE IF kind # "dir" THEN "NotADirectoryError"
    ELSE "none"

\* names of the modelled trees
N_index  == <<"i","n","d","e","x",".","h","t","m","l">>
N_broken == <<"b","r","o","k","e","n",".","h","t","m">>
N_notes  == <<"n","o","t","e","s",".","t","x","t">>
N_hidden == <<".","h","t","m">>
N_sub    == <<"s","u","b">>
N_page   == <<"p","a","g","e",".","H","T","M","L">>
N_dhtml  == <<"d",".","h","t","m","l">>
N_x      == <<"x",".","H","t","m">>
N_docs   == <<"d","o","c","s">>
N_out    == <<"o","u","t">>

File(path) == [path |-> path, kind |-> "file"]
Dir(path)  == [path |-> path, kind |-> "dir"]

-----------------------------------------------------------------------------
(* The batch: main and HTMLToPDFConverter (specification Spec)             *)

MaxRuns == 2

base_path == <<N_docs>>

\* the trees a batch is run on
BatchEntries == {File(<<N_index>>), Dir(<<N_sub>>), File(<<N_sub, N_broken>>)}
BatchTrees == {t \in SUBSET BatchEntries : IsTree(t)}

\* the text of the source files
Content(file_path) ==
    CASE Name(file_path) = N_index  -> <<"<","h","e","a","d",">","<","/","h","e","a","d",">","<","s","t","y","l","e",">","s","<","/","s","t","y","l","e",">","<","p"," ","i","d","=","\"","i","\"",">","H","i","<","/","p",">">>
      [] Name(file_path) = N_broken -> <<"<","p"," ","c","l","a","s","s","=","\"","c","\"",">","H","i">>
      [] OTHER                      -> <<"H","i">>

NoAttempt == [render |-> "none", opened |-> FALSE, written |-> FALSE]

BatchIdle ==
    /\ caller = "none" /\ rootKind = "dir" /\ output_dir = <<>> /\ tree = {}
    /\ pc = "idle" /\ html_files = <<>> /\ idx = 0
    /\ total_files = 0 /\ successful_conversions = 0 /\ failed_conversions = 0
    /\ ret = <<0, 0>> /\ exitCode = -1 /\ error = "none"
    /\ outDirs = {} /\ outFiles = <<>> /\ results = <<>> /\ cur = NoAttempt
    /\ markup = <<>> /\ runs = 0 /\ renderCalls = 0 /\ summaries = <<>>

\* before main, the constructor or the first request runs; output_dir holds
\* the --output option / output_dir argument (<<>> when it is not given)
BatchInit ==
    /\ caller \in {"main", "library", "web"}
    /\ rootKind \in {"missing", "file", "dir"}
    /\ output_dir \in (IF caller = "web" THEN {<<>>} ELSE {<<>>, <<N_out>>})
    /\ tree \in (IF rootKind = "dir" THEN BatchTrees ELSE {{}})
    /\ pc = "start" /\ html_files = <<>> /\ idx = 0
    /\ total_files = 0 /\ successful_conversions = 0 /\ failed_conversions = 0
    /\ ret = <<0, 0>> /\ exitCode = -1 /\ error = "none"
    /\ outDirs = {} /\ outFiles = <<>> /\ results = <<>> /\ cur = NoAttempt
    /\ markup = <<>> /\ runs = 0 /\ renderCalls = 0 /\ summaries = <<>>

\* click.Path(exists=True, file_okay=False) rejects the argument of main
ClickReject ==
    /\ caller = "main" /\ pc = "start" /\ rootKind # "dir"
    /\ pc' = "exited" /\ exitCode' = 2
    /\ UNCHANGED <<caller, rootKind, output_dir, tree, html_files, idx, total_files,
                   successful_conversions, failed_conversions, ret, error, outDirs,
                   outFiles, results, cur, markup, runs, renderCalls, summaries>>
    /\ UNCHANGED <<sanVars, mapVars, findVars, webVars>>

\* main with --dry-run: the files are listed and nothing is converted
DryRun ==
    /\ caller = "main" /\ pc = "start" /\ rootKind = "dir"
    /\ pc' = "exited" /\ exitCode' = 0
    /\ UNCHANGED <<caller, rootKind, output_dir, tree, html_files, idx, total_files,
                   successful_conversions, failed_conversions, ret, error, outDirs,
                   outFiles, results, cur, markup, runs, renderCalls, summaries>>
    /\ UNCHANGED <<sanVars, mapVars, findVars, webVars>>

\* HTMLToPDFConverter.__init__
Construct ==
    /\ pc = "start"
    /\ caller \in {"main", "library"}
    /\ caller = "main" => rootKind = "dir"
    /\ output_dir' = IF output_dir # <<>> THEN output_dir ELSE get_output_dir(base_path)
    /\ IF FinderInitError(rootKind) # "none"
       THEN /\ error' = FinderInitError(rootKind)
            /\ pc' = "raised"
       ELSE /\ error' = "none"
            /\ pc' = "ready"
    /\ total_files' = 0 /\ successful_conversions' = 0 /\ failed_conversions' = 0
    /\ UNCHANGED <<caller, rootKind, tree, html_files, idx, ret, exitCode, outDirs,
                   outFiles, results, cur, markup, runs, renderCalls, summaries>>
    /\ UNCHANGED <<sanVars, mapVars, findVars, webVars>>

\* a response of the web application
Response(status, statistics) == [status |-> status, statistics |-> statistics]
NoStatistics == [total |-> 0, successful |-> 0, failed |-> 0]

\* scan_folder: the session is updated when the folder is a directory
ScanFolder ==
    /\ caller = "web" /\ pc = "start"
    /\ pc' = "ready"
    /\ IF rootKind = "missing"
       THEN /\ ret' = Response(400, NoStatistics)
            /\ UNCHANGED <<html_files, output_dir>>
       ELSE IF FinderInitError(rootKind) # "none"
       THEN /\ ret' = Response(500, NoStatistics)
            /\ UNCHANGED <<html_files, output_dir>>
       ELSE /\ ret' = Response(200, NoStatistics)
            /\ html_files' \in Orders(find_html_files(base_path, tree))
            /\ output_dir' = get_output_dir(base_path)
    /\ UNCHANGED <<caller, rootKind, tree, idx, total_files, successful_conversions,
                   failed_conversions, exitCode, error, outDirs, outFiles, results,
                   cur, markup, runs, renderCalls, summaries>>
    /\ UNCHANGED <<sanVars, mapVars, findVars, webVars>>

\* NoFilesFound with the comparison off by one
NoFilesFoundBelowZero(n) == n < 0

\* "if self.total_files == 0" of convert_all
NoFilesFound(n) == n = 0

\* convert_all up to the for loop
ConvertAllBegin ==
    /\ caller \in {"main", "library"}
    /\ pc = "ready" \/ (pc = "returned" /\ caller = "library")
    /\ runs < MaxRuns
    /\ runs' = runs + 1
    /\ \E found \in Orders(find_html_files(base_path, tree)) :
          /\ html_files' = found
          /\ total_files' = Len(found)
          /\ IF NoFilesFound(Len(found))
             THEN /\ ret' = <<0, 0>> /\ pc' = "returned" /\ idx' = 0
             ELSE /\ ret' = ret /\ pc' = "mkdir" /\ idx' = 1
    /\ results' = <<>> /\ cur' = NoAttempt
    /\ UNCHANGED <<caller, rootKind, output_dir, tree, successful_conversions,
                   failed_conversions, exitCode, error, outDirs, outFiles, markup,
                   renderCalls, summaries>>
    /\ UNCHANGED <<sanVars, mapVars, findVars, webVars>>

\* convert_files up to the for loop
ConvertFilesBegin ==
    /\ caller = "web" /\ pc \in {"ready", "returned"}
    /\ runs < MaxRuns
    /\ runs' = runs + 1
    /\ IF html_files = <<>>
       THEN /\ ret' = Response(400, NoStatistics) /\ pc' = "returned" /\ idx' = 0
       ELSE /\ ret' = ret /\ pc' = "mkdir" /\ idx' = 1
    /\ results' = <<>> /\ cur' = NoAttempt
    /\ UNCHANGED <<caller, rootKind, output_dir, tree, html_files, total_files,
                   successful_conversions, failed_conversions, exitCode, error,
                   outDirs, outFiles, markup, renderCalls, summaries>>
    /\ UNCHANGED <<sanVars, mapVars, findVars, webVars>>

\* the statistics convert_files computes from its conversions
Statistics(conversions) ==
    LET successful == Cardinality({i \in DOMAIN conversions : conversions[i].success})
    IN  [total |-> Len(conversions), successful |-> successful,
         failed |-> Len(conversions) - successful]

\* the file of the current iteration and the paths derived from it
html_file == html_files[idx]
relative_path == get_relative_path(html_file, base_path)
pdf_path == get_pdf_path(html_file, output_dir, relative_path)

\* the counters after an attempt that returned success
CountersAfter(success) ==
    IF success THEN <<successful_conversions + 1, failed_conversions>>
    ELSE <<successful_conversions, failed_conversions + 1>>

\* the end of _convert_single_file and the continuation of convert_all: the
\* next iteration, or _print_summary and the return
FinishFileBatch(success) ==
    /\ successful_conversions' = CountersAfter(success)[1]
    /\ failed_conversions' = CountersAfter(success)[2]
    /\ IF idx < Len(html_files)
       THEN /\ idx' = idx + 1 /\ pc' = "mkdir"
            /\ UNCHANGED <<ret, summaries>>
       ELSE /\ idx' = idx /\ pc' = "returned"
            /\ summaries' = Append(summaries,
                   [total |-> total_files,
                    successful |-> CountersAfter(success)[1],
                    failed |-> CountersAfter(success)[2]])
            /\ ret' = CountersAfter(success)

\* convert_files after convert_html_to_pdf returned: the next iteration, or
\* the statistics and the response
FinishFileWeb(success) ==
    /\ UNCHANGED <<successful_conversions, failed_conversions, summaries>>
    /\ IF idx < Len(html_files)
       THEN idx' = idx + 1 /\ pc' = "mkdir" /\ ret' = ret
       ELSE /\ idx' = idx /\ pc' = "returned"
            /\ ret' = Response(200, Statistics(
                   Append(results, [file |-> html_file, success |-> success])))

\* convert_html_to_pdf returned success to its caller
FinishFile(success) ==
    /\ results' = Append(results, [file |-> html_file, success |-> success])
    /\ markup' = <<>>
    /\ IF caller = "web" THEN FinishFileWeb(success) ELSE FinishFileBatch(success)
    /\ UNCHANGED <<caller, rootKind, output_dir, tree, html_files, total_files,
                   exitCode, error, runs>>

\* FaultOutcome without the two handlers: every fault leaves the batch
FaultOutcomeUnhandled(fault) == "escapes"

\* where a fault raised inside the conversion of one file ends: the handler of
\* convert_html_to_pdf and the handler of _convert_single_file are both
\* "except Exception"
FaultOutcome(fault) == IF fault = "Exception" THEN "failed" ELSE "escapes"

\* a fault leaves convert_all / convert_files: main catches it and exits with
\* status 1, a library caller or the web server sees it raised
Escape(fault) ==
    /\ error' = fault
    /\ markup' = <<>>
    /\ IF caller = "main"
       THEN pc' = "exited" /\ exitCode' = 1
       ELSE pc' = "raised" /\ exitCode' = exitCode
    /\ UNCHANGED <<caller, rootKind, output_dir, tree, html_files, idx, total_files,
                   successful_conversions, failed_conversions, ret, results, runs,
                   summaries>>

\* a step of the conversion raises fault
Raise(fault) ==
    IF FaultOutcome(fault) = "failed" THEN FinishFile(FALSE) ELSE Escape(fault)

\* a step of the conversion completes and the conversion goes on at next
Continue(next) ==
    /\ pc' = next
    /\ UNCHANGED <<caller, rootKind, output_dir, tree, html_files, idx, total_files,
                   successful_conversions, failed_conversions, ret, exitCode, error,
                   results, runs, summaries>>

Faults == {"Exception", "KeyboardInterrupt"}

\* a directory and the directories above it
WithParents(dir) == {SubSeq(dir, 1, k) : k \in 1..Len(dir)}

\* pdf_file_path.parent.mkdir(parents=True, exist_ok=True)
MakeOutputDir ==
    /\ pc = "mkdir"
    /\ cur' = NoAttempt
    /\ \/ /\ outDirs' = outDirs \cup WithParents(Parent(pdf_path))
          /\ Continue("read") /\ markup' = markup
       \/ \E f \in Faults : Raise(f) /\ outDirs' = outDirs
    /\ UNCHANGED <<outFiles, renderCalls>>
    /\ UNCHANGED <<sanVars, mapVars, findVars, webVars>>

\* open(html_file_path, 'r', encoding='utf-8') and read()
ReadSource ==
    /\ pc = "read"
    /\ \/ markup' = Content(html_file) /\ Continue("primary")
       \/ \E f \in Faults : Raise(f)
    /\ UNCHANGED <<outDirs, outFiles, cur, renderCalls>>
    /\ UNCHANGED <<sanVars, mapVars, findVars, webVars>>

\* _enhance_html_for_pdf: the primary pass of _sanitize_css_for_pdf returns and
\* pdf_css is injected
EnhancePrimary ==
    /\ pc = "primary"
    /\ markup' = InjectCss(SanitizePrimary(markup))
    /\ Continue("render")
    /\ UNCHANGED <<outDirs, outFiles, cur, renderCalls>>
    /\ UNCHANGED <<sanVars, mapVars, findVars, webVars>>

\* a substitution of the primary pass raises after k substitutions
EnhancePrimaryFault ==
    /\ pc = "primary"
    /\ \E f \in Faults :
          IF PrimaryHandler(f) = "fallback"
          THEN /\ \E k \in 0..(NumPrimarySteps - 1) : markup' = PrimarySteps(markup, k)
               /\ Continue("fallback")
          ELSE Raise(f)
    /\ UNCHANGED <<outDirs, outFiles, cur, renderCalls>>
    /\ UNCHANGED <<sanVars, mapVars, findVars, webVars>>

\* the fallback pass returns, or raises and the placeholder is returned; pdf_css
\* is injected
EnhanceFallback ==
    /\ pc = "fallback"
    /\ \/ \E order \in Orders(DisallowedTags(markup)) :
              markup' = InjectCss(SanitizeFallback(markup, order))
       \/ \E f \in Faults :
              /\ FallbackHandler(f) = "placeholder"
              /\ markup' = InjectCss(Placeholder)
    /\ Continue("render")
    /\ UNCHANGED <<outDirs, outFiles, cur, renderCalls>>
    /\ UNCHANGED <<sanVars, mapVars, findVars, webVars>>

\* RenderSucceeded without the test of pisa_status.err
RenderSucceededAlways(status) == status \in {"ok", "err"}

\* "not pisa_status.err"
RenderSucceeded(status) == status = "ok"

\* pisa.CreatePDF: it returns with an empty err, returns with err set, or raises
Render ==
    /\ pc = "render"
    /\ renderCalls' = renderCalls + 1
    /\ \/ \E status \in {"ok", "err"} :
            /\ cur' = [cur EXCEPT !.render = status]
            /\ IF RenderSucceeded(status)
               THEN Continue("write") /\ markup' = <<>>
               ELSE FinishFile(FALSE)
       \/ \E f \in Faults : cur' = [cur EXCEPT !.render = "raised"] /\ Raise(f)
    /\ UNCHANGED <<outDirs, outFiles>>
    /\ UNCHANGED <<sanVars, mapVars, findVars, webVars>>

\* the content of outFiles after a write to path
Written(path, what) ==
    [q \in (DOMAIN outFiles) \cup {path} |-> IF q = path THEN what ELSE outFiles[q]]

\* open(pdf_file_path, 'wb') and write(): the bytes are written, open() raises,
\* or write() raises after open() truncated the file
WritePdf ==
    /\ pc = "write"
    /\ \/ /\ outFiles' = Written(pdf_path, "pdf")
          /\ cur' = [cur EXCEPT !.opened = TRUE, !.written = TRUE]
          /\ FinishFile(TRUE)
       \/ \E f \in Faults : outFiles' = outFiles /\ cur' = cur /\ Raise(f)
       \/ \E f \in Faults :
            /\ outFiles' = Written(pdf_path, "partial")
            /\ cur' = [cur EXCEPT !.opened = TRUE]
            /\ Raise(f)
    /\ UNCHANGED <<outDirs, renderCalls>>
    /\ UNCHANGED <<sanVars, mapVars, findVars, webVars>>

\* ExitStatus without the test of failed
ExitStatusIgnoringFailures(failed) == 0

\* the exit status of main for the failed count convert_all returned:
\* "if failed > 0: sys.exit(1)"
ExitStatus(failed) == IF failed > 0 THEN 1 ELSE 0

\* main after convert_all returned
MainExit ==
    /\ caller = "main" /\ pc = "returned"
    /\ exitCode' = ExitStatus(ret[2])
    /\ pc' = "exited"
    /\ UNCHANGED <<caller, rootKind, output_dir, tree, html_files, idx, total_files,
                   successful_conversions, failed_conversions, ret, error, outDirs,
                   outFiles, results, cur, markup, runs, renderCalls, summaries>>
    /\ UNCHANGED <<sanVars, mapVars, findVars, webVars>>

BatchNext ==
    \/ ClickReject \/ DryRun \/ Construct \/ ConvertAllBegin
    \/ ScanFolder \/ ConvertFilesBegin
    \/ MakeOutputDir \/ ReadSource
    \/ EnhancePrimary \/ EnhancePrimaryFault \/ EnhanceFallback
    \/ Render \/ WritePdf \/ MainExit

-----------------------------------------------------------------------------
(* get_pdf_path as a function of its arguments (specification SpecMap)     *)

MaxCalls == 2

N_a        == <<"a">>
N_b        == <<"b">>
N_c        == <<"c",".","H","T","M","L">>
N_pagehtml == <<"p","a","g","e",".","h","t","m","l">>
N_tar      == <<"v","1",".","2",".","h","t","m">>

MapBases   == {<<N_a>>, <<N_docs>>, <<ROOT, N_docs>>}
MapDirs    == {<<>>, <<N_sub>>, <<N_b>>, <<N_sub, N_b>>}
MapNames   == {N_c, N_pagehtml, N_page, N_x, N_index, N_broken, N_tar, N_hidden}
MapRoots   == {<<ROOT, N_out>>, <<N_out>>, get_output_dir(<<N_docs>>)}

\* the arguments the callers pass: a file below a base directory, its path
\* relative to that directory, and an output directory
MapInputs ==
    {[html_file_path |-> base \o dir \o <<name>>,
      output_base_path |-> root,
      relative_path |-> get_relative_path(base \o dir \o <<name>>, base)] :
        base \in MapBases, dir \in MapDirs, name \in MapNames, root \in MapRoots}

MapIdle == mapIn = <<>> /\ mapOut = <<>> /\ mapPc = "idle"

MapInit == mapIn \in MapInputs /\ mapOut = <<>> /\ mapPc = "ready"

\* one call of get_pdf_path; mapOut collects the values returned
MapCall ==
    /\ mapPc = "ready" /\ Len(mapOut) < MaxCalls
    /\ mapOut' = Append(mapOut, get_pdf_path(mapIn.html_file_path,
                                             mapIn.output_base_path,
                                             mapIn.relative_path))
    /\ UNCHANGED <<mapIn, mapPc>>
    /\ UNCHANGED <<batchVars, sanVars, findVars, webVars>>

-----------------------------------------------------------------------------
(* HTMLFileFinder on every tree (specification SpecFind)                    *)

FindEntries == {File(<<N_index>>), File(<<N_notes>>), File(<<N_hidden>>),
                Dir(<<N_sub>>), File(<<N_sub, N_page>>),
                Dir(<<N_dhtml>>), File(<<N_dhtml, N_x>>)}
FindTrees == {t \in SUBSET FindEntries : IsTree(t)}

FindIdle == findTree = {} /\ findPc = "idle" /\ findOut = <<>>

FindInit == findTree \in FindTrees /\ findPc = "start" /\ findOut = <<>>

\* HTMLFileFinder.get_html_files_list: the files in the order rglob yields them
GetHtmlFilesList ==
    /\ findPc = "start"
    /\ findOut' \in Orders(find_html_files(base_path, findTree))
    /\ findPc' = "found"
    /\ UNCHANGED findTree
    /\ UNCHANGED <<batchVars, sanVars, mapVars, webVars>>

\* get_relative_path on every file of the list
GetRelativePaths ==
    /\ findPc = "found"
    /\ \A i \in DOMAIN findOut : IsRelativeTo(findOut[i], base_path)
    /\ findOut' = [i \in DOMAIN findOut |-> get_relative_path(findOut[i], base_path)]
    /\ findPc' = "relative"
    /\ UNCHANGED findTree
    /\ UNCHANGED <<batchVars, sanVars, mapVars, webVars>>

-----------------------------------------------------------------------------
(* The destinations of the files of one batch (specification SpecPair)     *)

N_pagehtm == <<"p","a","g","e",".","h","t","m">>

PairEntries == {File(<<N_pagehtml>>), File(<<N_pagehtm>>), File(<<N_page>>),
                File(<<N_index>>), Dir(<<N_sub>>), File(<<N_sub, N_pagehtml>>)}
PairTrees == {t \in SUBSET PairEntries : IsTree(t)}

PairInit == findTree \in PairTrees /\ findPc = "start" /\ findOut = <<>>

\* _convert_single_file up to the call of convert_html_to_pdf, for every file
\* of the batch: its relative path and its pdf_path below the default
\* output directory
MapDiscoveredFiles ==
    /\ findPc = "found"
    /\ findOut' = [i \in DOMAIN findOut |->
                      [file |-> findOut[i],
                       pdf |-> get_pdf_path(findOut[i], get_output_dir(base_path),
                                            get_relative_path(findOut[i], base_path))]]
    /\ findPc' = "mapped"
    /\ UNCHANGED findTree
    /\ UNCHANGED <<batchVars, sanVars, mapVars, webVars>>

-----------------------------------------------------------------------------
(* The web front end: one browser session (specification SpecWeb).         *)
(* A value that may be None is a path or list that is empty when it is     *)
(* None; a dictionary key that may be absent is a sequence of length 0     *)
(* or 1.                                                                   *)

N_site     == <<"s","i","t","e">>
N_uploaded == <<"u","p","l","o","a","d","e","d","_","f","i","l","e","s">>
N_tmp      == <<"t","m","p">>
N_sessions == <<"h","t","m","l","_","t","o","_","p","d","f","_","s","e","s","s","i","o","n","s">>
N_pdfs     == <<"p","d","f","s">>
N_upl      == <<"u","p","l">>
ZIP_TAIL   == <<"_","p","d","f","s",".","z","i","p">>

\* the session before any request, and after session.clear()
EmptySession == [session_id |-> <<>>, current_conversion |-> <<>>]

\* the dictionary get_current_conversion stores when the key is missing
DefaultConversion ==
    [base_path |-> <<>>, html_files |-> <<>>, conversions |-> <<>>,
     output_dir |-> <<>>, session_temp_dir |-> <<>>]

get_current_conversion(s) ==
    IF s.current_conversion = <<>> THEN DefaultConversion
    ELSE s.current_conversion[1]

\* dict.update: the keys of updates replace those of the dictionary
DictUpdate(d, updates) ==
    [k \in DOMAIN d |-> IF k \in DOMAIN updates THEN updates[k] ELSE d[k]]

update_current_conversion(s, updates) ==
    [s EXCEPT !.current_conversion =
                  <<DictUpdate(get_current_conversion(s), updates)>>]

\* the folders of the server: two with HTML files, one without
WebFolder(folder_path) ==
    CASE folder_path = <<ROOT, N_docs>> ->
             {File(<<N_index>>), Dir(<<N_sub>>), File(<<N_sub, N_broken>>)}
      [] folder_path = <<ROOT, N_a>>    -> {File(<<N_index>>)}
      [] folder_path = <<ROOT, N_b>>    -> {File(<<N_notes>>)}
      [] OTHER                          -> {}

\* what a path of the server names
WebKind(folder_path) ==
    IF folder_path \in {<<ROOT, N_docs>>, <<ROOT, N_a>>, <<ROOT, N_b>>} THEN "dir"
    ELSE IF folder_path = <<ROOT, N_docs, N_index>> THEN "file"
    ELSE "missing"

\* the folder_path values of the scan-folder requests ('' is the empty path)
ScanRequests ==
    {<<>>, <<ROOT, N_docs>>, <<ROOT, N_a>>, <<ROOT, N_b>>,
     <<ROOT, N_docs, N_index>>, <<ROOT, N_out>>}

\* the uploads: the files of a request, each with its filename and the
\* relative path sent for it
Upload(path) == [filename |-> Name(path), relative_path |-> path]
UploadRequests ==
    { <<>>,
      <<Upload(<<N_notes>>)>>,
      <<Upload(<<N_site, N_notes>>), Upload(<<N_site, N_index>>)>> }

\* os.urandom(16).hex(): the directory of a cleared session is removed, so
\* a new identifier cannot be told from a reused one
SessionIds == {<<"s","1">>}

\* str.endswith on the lowered filename
EndsWith(name, ext) ==
    /\ Len(name) >= Len(ext)
    /\ SubSeq(Lower(name), Len(name) - Len(ext) + 1, Len(name)) = ext

\* the entry of html_files for one file
FileInfo(absolute_path, rel) ==
    [absolute_path |-> absolute_path, relative_path |-> rel,
     filename |-> Name(absolute_path)]

\* the conversion_result of one file, success being what
\* convert_html_to_pdf returned
ConversionResult(file_info, out_dir, success) ==
    LET target == get_pdf_path(file_info.absolute_path, out_dir,
                               file_info.relative_path)
    IN  [html_file |-> file_info,
         pdf_path |-> IF success THEN target ELSE <<>>,
         relative_pdf_path |-> IF success THEN get_relative_path(target, out_dir)
                               ELSE <<>>,
         success |-> success]

\* the results of the loop "for file_info in html_files"
ConvertEach(files, out_dir, outcome) ==
    [i \in DOMAIN files |-> ConversionResult(files[i], out_dir, outcome[i])]

\* the PDF files a list of results leaves on disk
PdfsWritten(conversions) ==
    {conversions[i].pdf_path : i \in {j \in DOMAIN conversions : conversions[j].success}}

WebInit ==
    /\ session = EmptySession /\ webDisk = {}
    /\ response = [status |-> 0] /\ webPc = "started"

\* HTMLFileFinder on the folder of a scan-folder request: the lists
\* get_html_files_list can return, as file_list entries
ScanLists ==
    [folder_path \in ScanRequests |->
        {[i \in DOMAIN found |->
              FileInfo(found[i], get_relative_path(found[i], folder_path))] :
            found \in Orders(find_html_files(folder_path, WebFolder(folder_path)))}]

\* POST /api/scan-folder
scan_folder ==
    \E folder_path \in ScanRequests :
        /\ webPc' = "scan_folder"
        /\ IF folder_path = <<>> \/ WebKind(folder_path) = "missing"
           THEN /\ response' = [status |-> 400]
                /\ UNCHANGED session
           ELSE IF FinderInitError(WebKind(folder_path)) # "none"
           THEN /\ response' = [status |-> 500]
                /\ UNCHANGED session
           ELSE \E file_list \in ScanLists[folder_path] :
                  /\ session' = update_current_conversion(session,
                          [base_path |-> folder_path,
                           html_files |-> file_list,
                           output_dir |-> get_output_dir(folder_path)])
                  /\ response' = [status |-> 200, total_files |-> Len(file_list)]
        /\ UNCHANGED webDisk
        /\ UNCHANGED <<batchVars, sanVars, mapVars, findVars>>

\* POST /api/convert
convert_files ==
    LET current_conversion == get_current_conversion(session)
        stored == [session EXCEPT !.current_conversion = <<current_conversion>>]
    IN  /\ webPc' = "convert_files"
        /\ IF current_conversion.base_path = <<>> \/ current_conversion.html_files = <<>>
           THEN /\ response' = [status |-> 400]
                /\ session' = stored
                /\ UNCHANGED webDisk
           ELSE IF current_conversion.output_dir = <<>>
           THEN /\ response' = [status |-> 500]
                /\ session' = stored
                /\ UNCHANGED webDisk
           ELSE \E outcome \in [DOMAIN current_conversion.html_files -> BOOLEAN] :
                  LET conversions == ConvertEach(current_conversion.html_files,
                                                 current_conversion.output_dir, outcome)
                  IN  /\ session' = update_current_conversion(stored,
                                        [conversions |-> conversions])
                      /\ webDisk' = webDisk \cup PdfsWritten(conversions)
                      /\ response' = [status |-> 200, total |-> Len(conversions)]
        /\ UNCHANGED <<batchVars, sanVars, mapVars, findVars>>

\* root_folder_name: taken from the first HTML file of the upload
RootFolderName(html_uploads) ==
    IF html_uploads = <<>> THEN N_uploaded
    ELSE IF Len(html_uploads[1].relative_path) > 1
         THEN html_uploads[1].relative_path[1]
         ELSE N_uploaded

\* the uploaded files saved: those whose lowered filename ends with .html
\* or .htm, as html_files entries below temp_path
SavedUploads ==
    [files \in UploadRequests |->
        LET IsHtml(f) == EndsWith(f.filename, EXT_html) \/ EndsWith(f.filename, EXT_htm)
            html_uploads == SelectSeq(files, IsHtml)
        IN  [i \in DOMAIN html_uploads |->
                [absolute_path |-> Join(<<ROOT, N_tmp, N_upl>>, html_uploads[i].relative_path),
                 relative_path |-> html_uploads[i].relative_path,
                 filename |-> html_uploads[i].filename]]]

\* POST /api/upload-and-convert
upload_and_convert ==
    \E files \in UploadRequests :
      /\ webPc' = "upload_and_convert"
      /\ IF files = <<>>
         THEN /\ response' = [status |-> 400]
              /\ UNCHANGED <<session, webDisk>>
         ELSE \E fresh \in SessionIds :
           LET session_id == IF session.session_id = <<>> THEN fresh
                             ELSE session.session_id[1]
               session_temp_dir == <<ROOT, N_tmp, N_sessions, session_id>>
               out_dir == Join(session_temp_dir, <<N_pdfs>>)
               file_list == SavedUploads[files]
               named == update_current_conversion(
                            [session EXCEPT !.session_id = <<session_id>>],
                            [base_path |-> <<RootFolderName(file_list)>>,
                             session_temp_dir |-> session_temp_dir])
           IN  IF file_list = <<>>
               THEN /\ session' = named
                    /\ response' = [status |-> 400]
                    /\ UNCHANGED webDisk
               ELSE \E outcome \in [DOMAIN file_list -> BOOLEAN] :
                      LET conversions == ConvertEach(file_list, out_dir, outcome)
                      IN  /\ session' = update_current_conversion(named,
                                            [conversions |-> conversions])
                          /\ webDisk' = webDisk \cup PdfsWritten(conversions)
                          /\ response' = [status |-> 200, total |-> Len(conversions)]
      /\ UNCHANGED <<batchVars, sanVars, mapVars, findVars>>

\* the successful results, every result
successful_only_all(conversions) == conversions

\* "successful_conversions = [c for c in ... if c['success']]"
successful_only(conversions) ==
    LET Kept(c) == c.success
    IN  SelectSeq(conversions, Kept)

\* the entries zipf.write adds: one per successful result whose PDF exists
ZipEntries(conversions, disk) ==
    LET Exists(c) == c.pdf_path # <<>> /\ c.pdf_path \in disk
        present == SelectSeq(successful_only(conversions), Exists)
    IN  [i \in DOMAIN present |->
            [zip_path |-> present[i].relative_pdf_path, source |-> present[i].pdf_path]]

\* zip_filename
ZipFilename(folder) ==
    IF folder # <<>> THEN Name(folder) \o ZIP_TAIL
    ELSE <<"c","o","n","v","e","r","t","e","d">> \o ZIP_TAIL

\* GET /api/download-all-pdfs
download_all_pdfs ==
    LET current_conversion == get_current_conversion(session)
    IN  /\ webPc' = "download_all_pdfs"
        /\ session' = [session EXCEPT !.current_conversion = <<current_conversion>>]
        /\ IF current_conversion.conversions = <<>>
           THEN response' = [status |-> 400]
           ELSE IF successful_only(current_conversion.conversions) = <<>>
           THEN response' = [status |-> 400]
           ELSE response' = [status |-> 200,
                             download_name |-> ZipFilename(current_conversion.base_path),
                             entries |-> ZipEntries(current_conversion.conversions, webDisk)]
        /\ UNCHANGED webDisk
        /\ UNCHANGED <<batchVars, sanVars, mapVars, findVars>>

\* POST /api/clear-session
clear_session ==
    LET session_temp_dir == get_current_conversion(session).session_temp_dir
    IN  /\ webPc' = "clear_session"
        /\ webDisk' = IF session_temp_dir # <<>>
                      THEN {p \in webDisk : ~IsRelativeTo(p, session_temp_dir)}
                      ELSE webDisk
        /\ session' = EmptySession
        /\ response' = [status |-> 200]
        /\ UNCHANGED <<batchVars, sanVars, mapVars, findVars>>

WebNext ==
    \/ scan_folder \/ convert_files \/ upload_and_convert
    \/ download_all_pdfs \/ clear_session

-----------------------------------------------------------------------------
(* Specifications                                                          *)

WebIdle ==
    /\ session = EmptySession /\ webDisk = {}
    /\ response = [status |-> 0] /\ webPc = "idle"

SanNext ==
    \/ SanSubstitute \/ SanPrimaryFault \/ SanPrimaryReturn
    \/ SanFallback \/ SanFallbackFault \/ SanInject

\* the batch
Init == BatchInit /\ SanIdle /\ MapIdle /\ FindIdle /\ WebIdle
Next == BatchNext
Spec == Init /\ [][Next]_vars

\* the sanitizer on every input
InitSan == SanInit /\ BatchIdle /\ MapIdle /\ FindIdle /\ WebIdle
NextSan == SanNext
SpecSan == InitSan /\ [][NextSan]_vars

\* the path mapper on every input
InitMap == MapInit /\ BatchIdle /\ SanIdle /\ FindIdle /\ WebIdle
NextMap == MapCall
SpecMap == InitMap /\ [][NextMap]_vars

\* the finder on every tree
InitFind == FindInit /\ BatchIdle /\ SanIdle /\ MapIdle /\ WebIdle
NextFind == GetHtmlFilesList \/ GetRelativePaths
SpecFind == InitFind /\ [][NextFind]_vars

\* the attribute substitutions on every sequence of parts
InitAttr == AttrInit /\ BatchIdle /\ MapIdle /\ FindIdle /\ WebIdle
NextAttr == SanSubstitute
SpecAttr == InitAttr /\ [][NextAttr]_vars

\* the fallback pass when the first substitution of the primary pass raises
InitFallback == FallbackInit /\ BatchIdle /\ MapIdle /\ FindIdle /\ WebIdle
NextFallback == SanPrimaryFault \/ SanFallback \/ SanFallbackFault
SpecFallback == InitFallback /\ [][NextFallback]_vars

\* the injection on every sanitized markup
InitInject == InjectInit /\ BatchIdle /\ MapIdle /\ FindIdle /\ WebIdle
NextInject == SanInject
SpecInject == InitInject /\ [][NextInject]_vars

\* the destinations of the files of one batch
InitPair == PairInit /\ BatchIdle /\ SanIdle /\ MapIdle /\ WebIdle
NextPair == GetHtmlFilesList \/ MapDiscoveredFiles
SpecPair == InitPair /\ [][NextPair]_vars

\* the web session
InitWeb == WebInit /\ BatchIdle /\ SanIdle /\ MapIdle /\ FindIdle
NextWeb == WebNext
SpecWeb == InitWeb /\ [][NextWeb]_vars

-----------------------------------------------------------------------------
(* Properties                                                              *)

\* the last entry of results
LastResult == results[Len(results)]

\* the number of entries of results with the given outcome
CountResults(success) ==
    Cardinality({i \in DOMAIN results : results[i].success = success})

\* C1: after every call of convert_all the counters satisfy
\* successful_conversions + failed_conversions = total_files, and the
\* statistics of a web convert response satisfy successful + failed = total.
\* The web half holds; the first half fails on the second call of convert_all
\* on one object, because the counters are set to 0 by __init__ only.
C1_CountersPartitionBatch ==
    pc = "returned" =>
        IF caller = "web"
        THEN ret.status = 200 =>
                ret.statistics.successful + ret.statistics.failed = ret.statistics.total
        ELSE successful_conversions + failed_conversions = total_files

\* results lists the files attempted so far, each once and in the order of
\* html_files; a run that returned attempted all of them, and a run that
\* stopped earlier was interrupted
C2_State ==
    /\ Len(results) <= Len(html_files)
    /\ \A i \in 1..Len(results) : results[i].file = html_files[i]
    /\ \A i, j \in 1..Len(html_files) : html_files[i] = html_files[j] => i = j
    /\ pc \in {"mkdir", "read", "primary", "fallback", "render", "write"} =>
           Len(results) = idx - 1
    /\ pc = "returned" => Len(results) = Len(html_files)
    /\ (pc \in {"raised", "exited"} /\ Len(results) < Len(html_files)) =>
           error = "KeyboardInterrupt"

\* within a run results only grows, by the outcome of the current file, and
\* the loop then goes on to the next file or returns
C2_Step ==
    /\ runs' = runs =>
           /\ Len(results') \in {Len(results), Len(results) + 1}
           /\ \A i \in 1..Len(results) : results'[i] = results[i]
    /\ (runs' = runs /\ Len(results') = Len(results) + 1) =>
           /\ results'[Len(results')].file = html_files[idx]
           /\ IF idx < Len(html_files)
              THEN pc' = "mkdir" /\ idx' = idx + 1
              ELSE pc' = "returned"

\* C2: in one run every discovered file is attempted exactly once, one at a
\* time and in discovery order; an outcome once recorded is never changed; a
\* recorded failure is followed by the next file of the list (or by the return
\* when it was the last one); a run stops before the end of the list only by
\* an interrupt, never by the failure of a file.
C2_EveryFileAttemptedOnce == []C2_State /\ [][C2_Step]_vars

\* a run over two files whose first file failed and whose second succeeded
C2_Witness ==
    /\ pc = "returned" /\ Len(html_files) = 2 /\ Len(results) = 2
    /\ ~results[1].success /\ results[2].success

\* the conversion of the file last recorded in results has ended and cur
\* describes it
AttemptFinished ==
    /\ Len(results) > 0
    /\ pc \in {"mkdir", "returned"} \/ (pc = "exited" /\ error = "none")

\* C3: a conversion is reported successful exactly when the renderer returned
\* without an error detail and the PDF bytes were written; when the renderer
\* reports an error detail or raises, the file is reported failed and the
\* destination file is not opened for writing.
C3_SuccessIffRenderedAndWritten ==
    AttemptFinished =>
        /\ LastResult.success <=> (cur.render = "ok" /\ cur.written)
        /\ cur.render \in {"err", "raised"} =>
               ~LastResult.success /\ ~cur.opened /\ ~cur.written

\* the renderer reported an error detail for the only file of a first run
C3_Witness ==
    /\ AttemptFinished /\ cur.render = "err" /\ ~LastResult.success
    /\ runs = 1 /\ Len(html_files) = 1 /\ DOMAIN outFiles = {}

\* a call of convert_all that finds no file returns in the same step
C4_Step ==
    (caller # "web" /\ runs' = runs + 1 /\ html_files' = <<>>) =>
        /\ pc' = "returned" /\ ret' = <<0, 0>> /\ total_files' = 0
        /\ renderCalls' = renderCalls /\ results' = <<>>
        /\ outDirs' = outDirs /\ outFiles' = outFiles

\* what convert_all returned when it found no file
C4_State ==
    (caller # "web" /\ pc = "returned" /\ html_files = <<>>) =>
        ret = <<0, 0>> /\ total_files = 0 /\ results = <<>>

\* C4: when discovery yields no file, convert_all returns (0, 0) with
\* total_files 0, attempts no file and does not invoke the renderer.
C4_EmptyDiscovery == []C4_State /\ [][C4_Step]_vars

\* convert_all returned a second time on a directory without HTML files
C4_Witness ==
    /\ caller = "library" /\ pc = "returned" /\ runs = 2
    /\ tree = {Dir(<<N_sub>>)} /\ html_files = <<>>
    /\ ret = <<0, 0>> /\ renderCalls = 0

\* C9: a scan root that does not exist raises FileNotFoundError and one that
\* is not a directory raises NotADirectoryError, when the converter is
\* constructed; no file has been discovered, read, rendered or written.
C9_SetupErrorBeforeAnyFile ==
    /\ (caller = "library" /\ pc # "start" /\ rootKind = "missing") =>
           pc = "raised" /\ error = "FileNotFoundError"
    /\ (caller = "library" /\ pc # "start" /\ rootKind = "file") =>
           pc = "raised" /\ error = "NotADirectoryError"
    /\ (rootKind # "dir" \/ error \in {"FileNotFoundError", "NotADirectoryError"}) =>
           /\ html_files = <<>> /\ results = <<>> /\ renderCalls = 0
           /\ outDirs = {} /\ DOMAIN outFiles = {} /\ markup = <<>>
           /\ caller # "web" => runs = 0

\* the constructor raised NotADirectoryError
C9_Witness ==
    /\ caller = "library" /\ rootKind = "file"
    /\ pc = "raised" /\ error = "NotADirectoryError"

\* C10: main exits with a non-zero status whenever a file failed; after a run
\* that returned, every file was attempted and the summary reports the total
\* and the numbers of successes and failures.
C10_NonZeroExitOnFailure ==
    /\ (pc = "exited" /\ failed_conversions > 0) => exitCode # 0
    /\ (caller = "main" /\ pc = "exited" /\ error = "none" /\ runs = 1) =>
           /\ Len(results) = Len(html_files)
           /\ CountResults(FALSE) > 0 => exitCode # 0
           /\ Len(html_files) > 0 =>
                  summaries = << [total |-> Len(html_files),
                                  successful |-> CountResults(TRUE),
                                  failed |-> CountResults(FALSE)] >>

\* index.html converted, broken.htm failed, and main exited with status 1
C10_Witness ==
    /\ caller = "main" /\ pc = "exited" /\ exitCode = 1 /\ error = "none"
    /\ summaries = << [total |-> 2, successful |-> 1, failed |-> 1] >>
    /\ \E i, j \in DOMAIN results :
          /\ Name(results[i].file) = N_index /\ results[i].success
          /\ Name(results[j].file) = N_broken /\ ~results[j].success

\* the literal names of the examples of get_pdf_path
N_c_pdf    == <<"c",".","p","d","f">>
N_page_pdf == <<"p","a","g","e",".","p","d","f">>

\* name is stem, a dot and an extension without a dot, and pdf_name is stem
\* followed by ".pdf"; a name without an extension (no dot after its first
\* character) is followed by ".pdf" as a whole
ExtensionReplaced(name, pdf_name) ==
    IF \E i \in 2..(Len(name) - 1) : name[i] = "."
    THEN \E i \in 2..(Len(name) - 1) :
            /\ name[i] = "."
            /\ \A k \in (i + 1)..Len(name) : name[k] # "."
            /\ pdf_name = SubSeq(name, 1, i - 1) \o <<".","p","d","f">>
    ELSE pdf_name = name \o <<".","p","d","f">>

\* C5: get_pdf_path returns outputRoot / parent(relativePath) / (file name
\* with its extension replaced by ".pdf"), whatever the case of the
\* extension; a/b/c.HTML with root /out and relative path b/c.HTML gives
\* /out/b/c.pdf, docs/sub/page.html with root out gives out/sub/page.pdf;
\* two calls with the same arguments return the same path, and no file or
\* directory is touched.
C5_PdfPath ==
    /\ \A k \in 1..Len(mapOut) :
          /\ Len(mapOut[k]) = Len(mapIn.output_base_path) + Len(mapIn.relative_path)
          /\ SubSeq(mapOut[k], 1, Len(mapIn.output_base_path)) = mapIn.output_base_path
          /\ \A d \in 1..(Len(mapIn.relative_path) - 1) :
                mapOut[k][Len(mapIn.output_base_path) + d] = mapIn.relative_path[d]
          /\ ExtensionReplaced(mapIn.html_file_path[Len(mapIn.html_file_path)],
                               mapOut[k][Len(mapOut[k])])
          /\ mapOut[k] = mapOut[1]
    /\ (Len(mapOut) > 0 /\ mapIn = [html_file_path |-> <<N_a, N_b, N_c>>,
                                    output_base_path |-> <<ROOT, N_out>>,
                                    relative_path |-> <<N_b, N_c>>]) =>
           mapOut[1] = <<ROOT, N_out, N_b, N_c_pdf>>
    /\ (Len(mapOut) > 0 /\ mapIn = [html_file_path |-> <<N_docs, N_sub, N_pagehtml>>,
                                    output_base_path |-> <<N_out>>,
                                    relative_path |-> <<N_sub, N_pagehtml>>]) =>
           mapOut[1] = <<N_out, N_sub, N_page_pdf>>
    /\ outDirs = {} /\ outFiles = <<>>

\* get_pdf_path was called twice on a/b/c.HTML with root /out
C5_Witness ==
    /\ mapIn = [html_file_path |-> <<N_a, N_b, N_c>>,
                output_base_path |-> <<ROOT, N_out>>,
                relative_path |-> <<N_b, N_c>>]
    /\ mapOut = << <<ROOT, N_out, N_b, N_c_pdf>>, <<ROOT, N_out, N_b, N_c_pdf>> >>

\* the sanitizer has not raised, and what it returned is a text of one of
\* the three tiers
C6_State ==
    /\ sanPc # "raised"
    /\ sanPc \in {"done", "enhanced"} =>
           /\ sanTier \in {"primary", "fallback", "placeholder"}
           /\ DOMAIN sanOut = 1..Len(sanOut)
    /\ (sanPc = "done" /\ sanTier = "placeholder") => sanOut = Placeholder
    /\ (sanPc = "done" /\ sanTier = "primary") => sanStep = NumPrimarySteps

\* the primary pass is left early only for the fallback pass, the fallback
\* pass only with a result
C6_Step ==
    /\ (sanPc = "primary" /\ sanPc' # "primary" /\ sanStep < NumPrimarySteps) =>
           sanPc' = "fallback"
    /\ (sanPc = "fallback" /\ sanPc' # "fallback") =>
           sanPc' = "done" /\ sanTier' \in {"fallback", "placeholder"}

\* C6: _sanitize_css_for_pdf never lets a fault of one of its passes reach
\* its caller: a fault in the primary pass leads to the fallback pass, a
\* fault in the fallback pass to the placeholder document, and every input,
\* the empty one included, gets a text as result.
C6_SanitizerTotal == []C6_State /\ [][C6_Step]_vars

\* both passes raised and the placeholder was returned
C6_Witness ==
    /\ sanPc = "done" /\ sanTier = "placeholder" /\ sanOut = Placeholder
    /\ sanStep > 0 /\ sanIn # <<>>

\* the input has a <style> block followed by a <script> block
StyleThenScript(toks) ==
    \E i, j \in DOMAIN toks : i < j /\ toks[i] = TokStyle /\ toks[j] = TokScript

\* C7: the sanitized form of an input with a <style> block followed by a
\* <script> block contains neither block and contains every piece of plain
\* text that was outside the blocks.  The second half fails: the attribute
\* substitutions are not confined to tags and remove  id="x"  from text.
C7_BlocksRemovedTextKept ==
    (sanPc = "done" /\ sanTier = "primary" /\ StyleThenScript(sanIn)) =>
        /\ ~Contains(Lower(sanOut), LIT_style_open)
        /\ ~Contains(Lower(sanOut), LIT_script_open)
        /\ \A k \in DOMAIN sanIn :
              sanIn[k].kind = "text" => Contains(sanOut, sanIn[k].text)

\* an extension, compared without regard to case, ends name after a stem
HasHtmlExtension(name) ==
    \E ext \in {<<".","h","t","m","l">>, <<".","h","t","m">>} :
        /\ Len(name) > Len(ext)
        /\ \A k \in 1..Len(ext) : LowerChar(name[Len(name) - Len(ext) + k]) = ext[k]

\* the regular files of a tree that carry an HTML extension, relative to the root
ExpectedHtml(t) ==
    {e.path : e \in {x \in t : x.kind = "file" /\ HasHtmlExtension(x.path[Len(x.path)])}}

\* C8: the files HTMLFileFinder returns, and their relative paths, are exactly
\* the regular files at any depth whose extension is .html or .htm in any
\* case; other files and directories (also those named like *.html) are not
\* returned, and no file is returned twice.
C8_ExactlyHtmlFiles ==
    /\ findPc = "found" =>
           /\ Range(findOut) = {base_path \o q : q \in ExpectedHtml(findTree)}
           /\ Len(findOut) = Cardinality(ExpectedHtml(findTree))
    /\ findPc = "relative" =>
           /\ Range(findOut) = ExpectedHtml(findTree)
           /\ Len(findOut) = Cardinality(ExpectedHtml(findTree))

\* the tree with every entry was searched
C8_Witness ==
    /\ findPc = "relative" /\ findTree = FindEntries
    /\ Range(findOut) = {<<N_index>>, <<N_sub, N_page>>, <<N_dhtml, N_x>>}

\* C11: an interrupt stops the batch (no file after the interrupted one is
\* attempted), main exits with a non-zero status, and the summary of the
\* files already processed is still reported.  The last part fails: main
\* catches the interrupt, logs a warning and exits; _print_summary is only
\* reached at the end of convert_all.
C11_InterruptStopsAndReports ==
    (caller = "main" /\ error = "KeyboardInterrupt") =>
        /\ pc = "exited" /\ exitCode # 0
        /\ Len(results) = idx - 1
        /\ Len(results) > 0 =>
               summaries = << [total |-> Len(results),
                               successful |-> CountResults(TRUE),
                               failed |-> CountResults(FALSE)] >>

\* the conversions stored in the session
StoredConversions == get_current_conversion(session).conversions

\* the positions of the stored conversions that succeeded
Succeeded == {i \in DOMAIN StoredConversions : StoredConversions[i].success}

\* the archive holds exactly this entry for the stored conversion c
EntryOf(c) == [zip_path |-> c.relative_pdf_path, source |-> c.pdf_path]

\* C12: download-all answers with one archive whose entries are exactly the
\* successful stored conversions, in their order, each at its
\* relative_pdf_path and none for a failed conversion; without conversions or
\* without a successful one it answers with an error and no archive.
C12_ArchiveOfSuccessfulResults ==
    webPc = "download_all_pdfs" =>
        IF Succeeded = {}
        THEN response = [status |-> 400]
        ELSE /\ response.status = 200
             /\ Len(response.entries) = Cardinality(Succeeded)
             /\ \A i \in Succeeded :
                   LET k == Cardinality({j \in Succeeded : j <= i})
                   IN  response.entries[k] = EntryOf(StoredConversions[i])

\* an archive was sent for a session with a successful and a failed conversion
C12_Witness ==
    /\ webPc = "download_all_pdfs" /\ response.status = 200
    /\ Succeeded # {} /\ Succeeded # DOMAIN StoredConversions
    /\ Len(response.entries) = 1

\* C13: the steps of one conversion follow the order reading, sanitizing,
\* rendering, writing, and the output directories change only in the step
\* that writes, so after the source was read and rendering succeeded.  The
\* second part fails: mkdir is the first statement of convert_html_to_pdf.
C13_DirectoryCreatedBeforeWriteOnly ==
    [][ /\ pc' = "primary" => pc = "read"
        /\ pc' = "render" => pc \in {"primary", "fallback"}
        /\ pc' = "write" => pc = "render"
        /\ outDirs' # outDirs => pc = "write" ]_vars

\* C14: the counts are those of one run: what convert_all returns, and the
\* summary it prints, count the files of that call only, also on a later call
\* on the same object.  This fails: the counters start at 0 in __init__ only,
\* so a later call adds to the counts of the earlier ones.
C14_CountsFreshPerRun ==
    (pc = "returned" /\ caller \in {"main", "library"}) =>
        /\ ret = <<CountResults(TRUE), CountResults(FALSE)>>
        /\ results # <<>> =>
              /\ summaries[Len(summaries)].successful = CountResults(TRUE)
              /\ summaries[Len(summaries)].failed = CountResults(FALSE)

\* the positions at which sanitized markup s holds the opening tag lit,
\* compared character by character without regard to case
TagPositions(s, lit) == {p \in 1..Len(s) : MatchesAt(s, p, lit)}

\* out is s with the text ins inserted right after the tag lit at p
InsertedAfter(s, out, p, lit, ins) ==
    out = SubSeq(s, 1, p + Len(lit) - 1) \o ins \o SubSeq(s, p + Len(lit), Len(s))

\* C15: the stylesheet is injected once, by the first rule that applies: right
\* after a head opening tag; else, wrapped in a synthesized head, right after
\* an html opening tag; else in a shell around the whole content.  In the
\* first two cases the characters before and after the insertion point are
\* those of the sanitized markup.  This fails when U+0130 precedes the tag:
\* the position found in the lowered text is one too far in the markup.
C15_StylesheetInjectedAfterTag ==
    sanPc = "enhanced" =>
        IF TagPositions(sanText, LIT_head) # {}
        THEN \E p \in TagPositions(sanText, LIT_head) :
                InsertedAfter(sanText, sanOut, p, LIT_head, pdf_css)
        ELSE IF TagPositions(sanText, LIT_html) # {}
        THEN \E p \in TagPositions(sanText, LIT_html) :
                InsertedAfter(sanText, sanOut, p, LIT_html,
                              H_head \o pdf_css \o H_head_end)
        ELSE sanOut = H_shell_open \o pdf_css \o H_shell_mid \o sanText \o H_shell_close

\* the parts of the input other than id, data-*, aria-* and role attributes
PartsToKeep(parts) ==
    LET Other(part) == part.kind # "removed"
    IN  SelectSeq(parts, Other)

\* C16: after the substitutions for id, data-*, aria-* and role the text is
\* the input without these attributes and with everything else in place:
\* the other attributes, the tags and the text between them.  This fails:
\* the ".*" of "data-.*" and "aria-.*" is greedy and runs over what follows
\* on the line, up to the last quoted value.
C16_OnlyListedAttributesRemoved ==
    (sanPc = "primary" /\ sanStep = LastAttrStep) =>
        sanText = Flatten(PartsToKeep(sanIn))

\* the input with every allowed tag without its attributes, the text as it
\* is, and no other tag
RECURSIVE AllowedAndText(_)
AllowedAndText(parts) ==
    IF parts = <<>> THEN <<>>
    ELSE (IF Head(parts).kind = "other" THEN <<>> ELSE Head(parts).bare)
             \o AllowedAndText(Tail(parts))

\* C17: what the fallback pass returns is the input with every tag outside
\* the allow-list removed, every allowed tag kept without attributes, and the
\* text kept.  This fails: the pattern that removes tag u is "</?u[^>]*>",
\* which also matches <ul>.
C17_FallbackKeepsAllowedTags ==
    (sanPc = "done" /\ sanTier = "fallback") =>
        sanOut = AllowedAndText(sanIn)

\* the names n1 and n2 are one stem followed by an HTML extension each
SameStem(n1, n2) ==
    \E k \in 1..Len(n1) :
        /\ k < Len(n2)
        /\ SubSeq(n1, 1, k) = SubSeq(n2, 1, k)
        /\ Lower(SubSeq(n1, k + 1, Len(n1))) \in {<<".","h","t","m","l">>, <<".","h","t","m">>}
        /\ Lower(SubSeq(n2, k + 1, Len(n2))) \in {<<".","h","t","m","l">>, <<".","h","t","m">>}

\* the files at positions i and j lie in one directory
SameDirectory(i, j) ==
    SubSeq(findOut[i].file, 1, Len(findOut[i].file) - 1)
        = SubSeq(findOut[j].file, 1, Len(findOut[j].file) - 1)

\* C18: two different files of one batch get the same destination exactly
\* when they lie in the same directory and their names have the same stem.
C18_SameDestinationIffSameStem ==
    findPc = "mapped" =>
        \A i, j \in DOMAIN findOut :
            i # j =>
                /\ findOut[i].file # findOut[j].file
                /\ (findOut[i].pdf = findOut[j].pdf) <=>
                       /\ SameDirectory(i, j)
                       /\ SameStem(findOut[i].file[Len(findOut[i].file)],
                                   findOut[j].file[Len(findOut[j].file)])

\* a batch with page.html and page.htm mapped to one destination, and
\* sub/page.html mapped to another
C18_Witness ==
    /\ findPc = "mapped"
    /\ \E i, j, k \in DOMAIN findOut :
          /\ findOut[i].file = <<N_docs, N_pagehtml>>
          /\ findOut[j].file = <<N_docs, N_pagehtm>>
          /\ findOut[k].file = <<N_docs, N_sub, N_pagehtml>>
          /\ findOut[i].pdf = findOut[j].pdf
          /\ findOut[k].pdf # findOut[i].pdf

\* the folder a stored conversion was made from: the scanned folder its
\* source lies in, or the root folder name of the upload it came with
OriginOf(c) ==
    IF IsRelativeTo(c.html_file.absolute_path, <<ROOT, N_tmp, N_upl>>)
    THEN <<RootFolderName(<<c.html_file>>)>>
    ELSE SubSeq(c.html_file.absolute_path, 1,
                Len(c.html_file.absolute_path) - Len(c.html_file.relative_path))

\* C19: in every state of a web session the stored conversions were made
\* from the stored base_path, so an archive sent by download-all-pdfs is
\* named after the folder its PDFs come from.  This fails: scan-folder
\* replaces base_path, html_files and output_dir and leaves the conversions
\* of the folder scanned before in the session.
C19_ConversionsOfCurrentFolder ==
    /\ \A i \in DOMAIN StoredConversions :
          OriginOf(StoredConversions[i]) = get_current_conversion(session).base_path
    /\ (webPc = "download_all_pdfs" /\ response.status = 200) =>
          \A i \in Succeeded :
              response.download_name = Name(OriginOf(StoredConversions[i])) \o ZIP_TAIL

====
